---------------------------- MODULE Spec2Model ----------------------------
(***************************************************************************)
(* Model of the feature-detection and keypoint-maintenance primitives of   *)
(* kornia-rs:                                                              *)
(*   crates/kornia-imgproc/src/features.rs                                 *)
(*       gftt_response, hessian_response, dog_response, _get_kernel_size   *)
(*   crates/kornia-tracking/src/image_utilities.rs                         *)
(*       image_grad, point_in_bound, inbound, se2_exp_matrix,              *)
(*       detect_key_points                                                 *)
(*                                                                         *)
(* Four components are modelled, each with its own specification:          *)
(*   SpecResp   - the three response functions                             *)
(*   SpecDetect - detect_key_points                                        *)
(*   SpecGrad   - inbound followed by image_grad                           *)
(*   SpecSe2    - se2_exp_matrix                                           *)
(*                                                                         *)
(* Numeric conventions.                                                    *)
(*   f32 pixel values are exact fixed-point numbers with scale FP (the     *)
(*   integer FP*v stands for v); all pixel inputs are whole numbers, for   *)
(*   which every product and the factor 0.25 of the Hessian stencil are    *)
(*   exact.  u32 values are integers modulo 2^WordBits.  With overflow     *)
(*   checks on (debug profile) an overflowing u32 operation panics, with   *)
(*   overflow checks off (release profile) it wraps; the build is an       *)
(*   input of the model.                                                   *)
(***************************************************************************)
EXTENDS Integers, Sequences, FiniteSets, TLC

VARIABLES
    \* ---- response functions (features.rs) ----
    fn,         \* which function is called: "gftt" | "hessian" | "dog"
    src,        \* source image  [rows, cols, data]
    dst,        \* destination image [rows, cols, data]
    dst0,       \* the destination's data before the call
    sigma1,     \* dog_response: sigma of the first kernel, in tenths
    sigma2,     \* dog_response: sigma of the second kernel, in tenths
    rpc,        \* position in the call: "call" | "rows" | "done"
    rowsDone,   \* hessian_response: output rows already processed
    ret,        \* the Result returned, <<"none">> before the return
    blurLog,    \* calls made to gaussian_blur: <<ksize, sigma>> each
    \* ---- build profile (both files of kornia-tracking) ----
    overflow_checks,    \* TRUE: u32 overflow panics; FALSE: it wraps
    \* ---- detect_key_points (image_utilities.rs) ----
    image,              \* the frame: [height, width, strength]
    grid_size,
    current_corners,    \* the existing corners, a sequence of [x, y]
    num_points_in_cell,
    dpc,        \* "setup" | "seed" | "cell" | "while" | "returned" | "panicked"
    grids,      \* the occupancy counters, grids[grid_y][grid_x]
    x_start, x_stop, y_start, y_stop,
    seeded,     \* number of existing corners the seeding loop has taken
    x, y,       \* origin of the cell the two for loops are at
    points_added,
    threshold,
    all_corners,    \* the list being built, a sequence of [x, y, score]
    passLog,        \* every corners_fast9 call: <<x, y, threshold, points_added>>
    \* ---- inbound and image_grad (image_utilities.rs) ----
    coord,      \* the fractional coordinate [x, y], in half pixels
    inbound_radius,     \* the radius the caller passes to inbound
    gpc,        \* "start" | "checked" | "sampled" | "panicked"
    inbound_ret,    \* what inbound returned: "none" | "true" | "false"
    reads,      \* the pixels image_grad has read, <<column, row>> each
    grad,       \* the Vec3 image_grad returned, <<>> before
    \* ---- se2_exp_matrix (image_utilities.rs) ----
    twist,      \* the argument a: [x, y, z], in thousandths
    mat,        \* the Mat3 returned: [x_axis, y_axis, z_axis], <<>> before
    spc         \* "start" | "done"

respVars == <<fn, src, dst, dst0, sigma1, sigma2, rpc, rowsDone, ret, blurLog>>

detVars == <<image, grid_size, current_corners, num_points_in_cell, dpc, grids,
             x_start, x_stop, y_start, y_stop, seeded, x, y, points_added,
             threshold, all_corners, passLog>>

gradVars == <<coord, inbound_radius, gpc, inbound_ret, reads, grad>>

se2Vars == <<twist, mat, spc>>

vars == <<respVars, overflow_checks, detVars, gradVars, se2Vars>>

(***************************************************************************)
(*                    Response functions (features.rs)                     *)
(***************************************************************************)

\* Scale of the fixed-point representation of f32 values.
FP == 16

\* Largest number of rows / columns of the enumerated images.
MaxDim == 4
\* Number of generated source images per shape.
MaxSeed == 3
\* Source pixels take the whole values 0 .. PixVals-1.
PixVals == 3

Shapes == {<<r, c>> : r \in 1..MaxDim, c \in 1..MaxDim} \cup {<<5, 5>>}

\* The 5x5 ring image of test_hessian_response.
RingPixels ==
    <<0, 0, 0, 0, 0,
      0, 1, 1, 1, 0,
      0, 1, 0, 1, 0,
      0, 1, 1, 1, 0,
      0, 0, 0, 0, 0>>

RingImage == [rows |-> 5, cols |-> 5,
              data |-> [i \in 0..24 |-> FP * RingPixels[i + 1]]]

\* A generated image: whole-valued pixels that vary with the seed.
GenImage(seed, rows, cols) ==
    [rows |-> rows, cols |-> cols,
     data |-> [i \in 0..(rows * cols - 1) |->
                 FP * (((seed * (i + 1) * (i + 3)) \div 2 + seed * i * i) % PixVals)]]

SrcImages(rows, cols) ==
    {GenImage(s, rows, cols) : s \in 1..MaxSeed}
      \cup (IF rows = 5 /\ cols = 5 THEN {RingImage} ELSE {})

\* Image::from_size_val(size, val)
from_size_val(rows, cols, val) ==
    [rows |-> rows, cols |-> cols, data |-> [i \in 0..(rows * cols - 1) |-> val]]

\* Values the destination is filled with before the call.
DstFills == {0, 7 * FP}

\* Sigmas of dog_response, in tenths: -1.0, 0.0, 0.5, 1.0
Sigmas == {-10, 0, 5, 10}

\* src.size() != dst.size(): ImageSize compares width and height.
SizeNe(a, b) == a.cols # b.cols \/ a.rows # b.rows

\* A slip in the error's payload: rows and columns of the source exchanged.
InvalidImageSizeSwapped(a, b) ==
    <<"Err", "InvalidImageSize", a.rows, a.cols, b.cols, b.rows>>

\* ImageError::InvalidImageSize(src.cols(), src.rows(), dst.cols(), dst.rows())
InvalidImageSize(a, b) == <<"Err", "InvalidImageSize", a.cols, a.rows, b.cols, b.rows>>

Ok == <<"Ok">>

\* Product of two fixed-point values.
FMul(a, b) == (a * b) \div FP

\* A slip in the stencil: the mixed derivative added instead of subtracted.
HessianDetPlus(s, row_idx, col_idx) ==
    LET c   == row_idx * s.cols + col_idx
        dxx == s.data[c - 1] - 2 * s.data[c] + s.data[c + 1]
        dyy == s.data[c - s.cols] - 2 * s.data[c] + s.data[c + s.cols]
        dxy == (s.data[c + s.cols - 1] - s.data[c - s.cols - 1]
                  - s.data[c + s.cols + 1] + s.data[c - s.cols + 1]) \div 4
    IN  FMul(dxx, dyy) + FMul(dxy, dxy)

\* The value hessian_response stores at (row_idx, col_idx), read from the flat
\* source buffer exactly as the closure does.
HessianDet(s, row_idx, col_idx) ==
    LET src_data     == s.data
        row_offset   == row_idx * s.cols
        current_idx  == row_offset + col_idx
        prev_row_idx == current_idx - s.cols
        next_row_idx == current_idx + s.cols
        v11 == src_data[prev_row_idx - 1]
        v12 == src_data[prev_row_idx]
        v13 == src_data[prev_row_idx + 1]
        v21 == src_data[current_idx - 1]
        v22 == src_data[current_idx]
        v23 == src_data[current_idx + 1]
        v31 == src_data[next_row_idx - 1]
        v32 == src_data[next_row_idx]
        v33 == src_data[next_row_idx + 1]
        dxx == v21 - 2 * v22 + v23
        dyy == v12 - 2 * v22 + v32
        dxy == (v31 - v11 - v33 + v13) \div 4
    IN  FMul(dxx, dyy) - FMul(dxy, dxy)

\* Whether the closure returns early for this row / column.
SkipRow(s, row_idx) == row_idx = 0 \/ row_idx = s.rows - 1
SkipCol(s, col_idx) == col_idx = 0 \/ col_idx = s.cols - 1

\* The destination buffer after the closure has run on the chunk of row_idx.
HessianRowWrite(s, d, row_idx) ==
    IF SkipRow(s, row_idx) THEN d
    ELSE [i \in DOMAIN d |->
            LET col_idx == i - row_idx * s.cols IN
            IF col_idx >= 0 /\ col_idx < s.cols /\ ~SkipCol(s, col_idx)
            THEN HessianDet(s, row_idx, col_idx)
            ELSE d[i]]

\* _get_kernel_size(sigma): (2.0 * 4.0 * sigma + 1.0) as usize, which truncates
\* toward zero and saturates at 0; made odd.
get_kernel_size(sigma) ==
    LET v     == 8 * sigma + 10          \* in tenths
        ksize == IF v <= 0 THEN 0 ELSE v \div 10
    IN  IF ksize % 2 = 0 THEN ksize + 1 ELSE ksize

\* gaussian_blur(src, dst, (ks, ks), (sigma, sigma)): the filter collaborator.
\* It fails only for an empty kernel or for unequal shapes; the blurred pixels
\* are kept symbolic.
gaussian_blur_result(s, d, ks) ==
    IF ks = 0 \/ SizeNe(s, d) THEN <<"Err", "InvalidKernelLength", ks, ks>> ELSE Ok

gaussian_blur_pixel(ks, sigma, i) == <<"blur", ks, sigma, i>>

(***************************************************************************)
(*                 detect_key_points (image_utilities.rs)                  *)
(***************************************************************************)

\* Width of the model's u32.
WordBits == 16
WordMod == 2 ^ WordBits

\* Wrapping u32 arithmetic (overflow checks off).
WrapSub(a, b) == (a - b + WordMod) % WordMod
WrapAdd(a, b) == (a + b) % WordMod
WrapMul(a, b) == (a * b) % WordMod

EDGE_THRESHOLD == 19

\* (height, width) of the enumerated frames.
FrameSizes == {<<10, 50>>, <<50, 10>>, <<40, 40>>, <<50, 40>>, <<50, 50>>}
GridSizes == {20, 25}
\* Largest per-cell quota enumerated.
MaxQuota == 2

\* Pixels of the frame that may be FAST corners, as <<x, y>>, and the largest
\* threshold at which each still is one (0: at none).
CandidatePixels == {<<20, 20>>, <<21, 21>>, <<28, 21>>, <<12, 12>>}
Strengths == {0, 12, 40}

\* Positions the existing corners are drawn from.
ExistingPixels == {<<5, 10>>, <<45, 20>>, <<5, 30>>}
\* Largest number of existing corners.
MaxExisting == 2

Corner(px, py, score) == [x |-> px, y |-> py, score |-> score]

\* The lists of at most n existing corners at distinct positions.
RECURSIVE ListsUpTo(_)
ListsUpTo(n) ==
    IF n = 0 THEN {<<>>}
    ELSE LET prev == ListsUpTo(n - 1)
         IN  prev \cup
               {Append(lp[1], Corner(lp[2][1], lp[2][2], 0)) :
                  lp \in {z \in prev \X ExistingPixels :
                            /\ Len(z[1]) = n - 1
                            /\ \A i \in 1..Len(z[1]) : <<z[1][i].x, z[1][i].y>> # z[2]}}

ExistingLists == ListsUpTo(MaxExisting)

\* Whether a comes before b in fast_corners after the stable sort by ascending
\* score: corners_fast9 scans row by row, so equal scores stay in
\* (y, x) order.
SortsBefore(a, b) ==
    \/ a.score < b.score
    \/ a.score = b.score /\ a.y < b.y
    \/ a.score = b.score /\ a.y = b.y /\ a.x < b.x

RECURSIVE SortCorners(_)
SortCorners(S) ==
    IF S = {} THEN <<>>
    ELSE LET m == CHOOSE c \in S : \A d \in S \ {c} : SortsBefore(c, d)
         IN  <<m>> \o SortCorners(S \ {m})

\* corners_fast9(&image_view, threshold) on the grid_size x grid_size view at
\* (vx, vy): a pixel nearer than 3 to the view's border is never a corner; the
\* score is the largest threshold at which the pixel is a corner.
corners_fast9(img, vx, vy, size, thr) ==
    {Corner(p[1] - vx, p[2] - vy, img.strength[p]) :
        p \in {q \in CandidatePixels :
                 /\ q[1] >= vx + 3 /\ q[1] < vx + size - 3
                 /\ q[2] >= vy + 3 /\ q[2] < vy + size - 3
                 /\ q[1] < img.width /\ q[2] < img.height
                 /\ img.strength[q] >= thr /\ img.strength[q] > 0}}

\* A slip in the margin test: the upper bounds measured from the frame's edge.
point_in_bound_no_upper(keypoint, height, width, radius) ==
    /\ keypoint.x >= radius
    /\ keypoint.x <= width
    /\ keypoint.y >= radius
    /\ keypoint.y <= height

\* point_in_bound: && evaluates left to right, the subtractions wrap.
point_in_bound(keypoint, height, width, radius) ==
    /\ keypoint.x >= radius
    /\ keypoint.x <= WrapSub(width, radius)
    /\ keypoint.y >= radius
    /\ keypoint.y <= WrapSub(height, radius)

\* Whether evaluating point_in_bound overflows a subtraction it reaches.
point_in_bound_overflows(keypoint, height, width, radius) ==
    /\ keypoint.x >= radius
    /\ \/ width < radius
       \/ /\ keypoint.x <= width - radius
          /\ keypoint.y >= radius
          /\ height < radius

\* A slip in the occupancy test: a cell counts as occupied from two corners on.
CellOccupiedFromTwo(g, grid_y, grid_x) == g[grid_y][grid_x] > 1

\* grids[grid_y][grid_x] > 0
CellOccupied(g, grid_y, grid_x) == g[grid_y][grid_x] > 0

\* A slip in the loop condition: the floor taken from the underflow guard.
WhileCondFloor5(added, quota, thr) == added < quota /\ thr >= 5

\* while points_added < num_points_in_cell && threshold >= 10
WhileCond(added, quota, thr) == added < quota /\ thr >= 10

\* The for loop over the sorted corners: [added, out, panic] after the loop.
RECURSIVE AcceptLoop(_, _, _, _, _, _)
AcceptLoop(fast_corners, i, added, out, cx, cy) ==
    IF i > Len(fast_corners) \/ added >= num_points_in_cell
    THEN [added |-> added, out |-> out, panic |-> FALSE]
    ELSE LET point == Corner(fast_corners[i].x + cx, fast_corners[i].y + cy,
                             fast_corners[i].score)
         IN  IF overflow_checks
                  /\ point_in_bound_overflows(point, image.height, image.width, EDGE_THRESHOLD)
             THEN [added |-> added, out |-> out, panic |-> TRUE]
             ELSE IF point_in_bound(point, image.height, image.width, EDGE_THRESHOLD)
             THEN AcceptLoop(fast_corners, i + 1, added + 1, Append(out, point), cx, cy)
             ELSE AcceptLoop(fast_corners, i + 1, added, out, cx, cy)

\* The cell after (cx, cy) in the two for loops, or <<>> when they are over:
\* y runs over (y_start..y_stop).step_by(grid_size) inside
\* x over (x_start..x_stop).step_by(grid_size).
NextCellOf(cx, cy) ==
    IF cy + grid_size < y_stop THEN <<cx, cy + grid_size>>
    ELSE IF cx + grid_size < x_stop /\ y_start < y_stop THEN <<cx + grid_size, y_start>>
    ELSE <<>>

FirstCell == IF x_start < x_stop /\ y_start < y_stop THEN <<x_start, y_start>> ELSE <<>>

\* Move the loops to cell `c`, or return all_corners when there is none.
GoTo(c) ==
    IF c = <<>>
    THEN dpc' = "returned" /\ UNCHANGED <<x, y>>
    ELSE dpc' = "cell" /\ x' = c[1] /\ y' = c[2]

Images ==
    {[height |-> s[1], width |-> s[2], strength |-> st] :
        s \in FrameSizes, st \in [CandidatePixels -> Strengths]}

InitDetect ==
    /\ overflow_checks \in BOOLEAN
    /\ image \in Images
    /\ grid_size \in GridSizes
    /\ current_corners \in ExistingLists
    /\ num_points_in_cell \in 0..MaxQuota
    /\ dpc = "setup"
    /\ grids = <<>>
    /\ x_start = 0 /\ x_stop = 0 /\ y_start = 0 /\ y_stop = 0
    /\ seeded = 0
    /\ x = 0 /\ y = 0
    /\ points_added = 0
    /\ threshold = 40
    /\ all_corners = <<>>
    /\ passLog = <<>>

IdleDetectRest ==
    /\ grid_size = 1
    /\ current_corners = <<>>
    /\ num_points_in_cell = 0
    /\ dpc = "idle"
    /\ grids = <<>>
    /\ x_start = 0 /\ x_stop = 0 /\ y_start = 0 /\ y_stop = 0
    /\ seeded = 0
    /\ x = 0 /\ y = 0
    /\ points_added = 0
    /\ threshold = 40
    /\ all_corners = <<>>
    /\ passLog = <<>>

IdleDetect ==
    /\ image = [height |-> 0, width |-> 0, strength |-> <<>>]
    /\ IdleDetectRest

\* Lines 88-98: the grid and its bounds.  w / grid_size - 1 overflows when the
\* frame is narrower than a cell (and likewise for the height).
GridSetup ==
    /\ dpc = "setup"
    /\ LET h == image.height
           w == image.width
           rows == h \div grid_size + 1
           cols == w \div grid_size + 1
           xs == (w % grid_size) \div 2
           ys == (h % grid_size) \div 2
       IN  IF overflow_checks /\ (w \div grid_size = 0 \/ h \div grid_size = 0)
           THEN /\ dpc' = "panicked"
                /\ UNCHANGED <<grids, x_start, x_stop, y_start, y_stop>>
           ELSE /\ dpc' = "seed"
                /\ grids' = [gy \in 0..(rows - 1) |-> [gx \in 0..(cols - 1) |-> 0]]
                /\ x_start' = xs
                /\ x_stop' = WrapAdd(WrapAdd(xs,
                                WrapMul(grid_size, WrapSub(w \div grid_size, 1))), 1)
                /\ y_start' = ys
                /\ y_stop' = WrapAdd(WrapAdd(ys,
                                WrapMul(grid_size, WrapSub(h \div grid_size, 1))), 1)
    /\ UNCHANGED <<image, grid_size, current_corners, num_points_in_cell, seeded,
                   x, y, points_added, threshold, all_corners, passLog>>
    /\ UNCHANGED <<respVars, overflow_checks, gradVars, se2Vars>>

\* Lines 101-113: one iteration of the seeding loop.
SeedCorner ==
    /\ dpc = "seed"
    /\ seeded < Len(current_corners)
    /\ LET corner == current_corners[seeded + 1]
           grid_x == (corner.x - x_start) \div grid_size
           grid_y == (corner.y - y_start) \div grid_size
       IN  IF /\ corner.x >= x_start
              /\ corner.y >= y_start
              /\ corner.x < WrapAdd(x_stop, grid_size)
              /\ corner.y < WrapAdd(y_stop, grid_size)
              /\ grid_y \in DOMAIN grids
              /\ grid_x \in DOMAIN grids[grid_y]
           THEN grids' = [grids EXCEPT ![grid_y][grid_x] = @ + 1]
           ELSE grids' = grids
    /\ seeded' = seeded + 1
    /\ UNCHANGED <<image, grid_size, current_corners, num_points_in_cell, dpc,
                   x_start, x_stop, y_start, y_stop, x, y, points_added,
                   threshold, all_corners, passLog>>
    /\ UNCHANGED <<respVars, overflow_checks, gradVars, se2Vars>>

\* Line 115: the seeding loop is over, the cell loops start.
SeedDone ==
    /\ dpc = "seed"
    /\ seeded = Len(current_corners)
    /\ GoTo(FirstCell)
    /\ UNCHANGED <<image, grid_size, current_corners, num_points_in_cell, grids,
                   x_start, x_stop, y_start, y_stop, seeded, points_added,
                   threshold, all_corners, passLog>>
    /\ UNCHANGED <<respVars, overflow_checks, gradVars, se2Vars>>

\* Lines 117-124: the head of the loop body for the cell at (x, y).  Indexing
\* grids outside its bounds panics, and so does a view that leaves the frame.
VisitCell ==
    /\ dpc = "cell"
    /\ LET grid_x == (x - x_start) \div grid_size
           grid_y == (y - y_start) \div grid_size
       IN  IF ~(grid_y \in DOMAIN grids /\ grid_x \in DOMAIN grids[grid_y])
           THEN dpc' = "panicked" /\ UNCHANGED <<x, y, points_added, threshold>>
           ELSE IF CellOccupied(grids, grid_y, grid_x)
           THEN GoTo(NextCellOf(x, y)) /\ UNCHANGED <<points_added, threshold>>
           ELSE IF x + grid_size > image.width \/ y + grid_size > image.height
           THEN dpc' = "panicked" /\ UNCHANGED <<x, y, points_added, threshold>>
           ELSE /\ dpc' = "while"
                /\ points_added' = 0
                /\ threshold' = 40
                /\ UNCHANGED <<x, y>>
    /\ UNCHANGED <<image, grid_size, current_corners, num_points_in_cell, grids,
                   x_start, x_stop, y_start, y_stop, seeded, all_corners, passLog>>
    /\ UNCHANGED <<respVars, overflow_checks, gradVars, se2Vars>>

\* Lines 125-143: one iteration of the while loop.
FastPass ==
    /\ dpc = "while"
    /\ WhileCond(points_added, num_points_in_cell, threshold)
    /\ LET fast_corners == SortCorners(corners_fast9(image, x, y, grid_size, threshold))
           r == AcceptLoop(fast_corners, 1, points_added, all_corners, x, y)
       IN  /\ passLog' = Append(passLog, <<x, y, threshold, points_added>>)
           /\ all_corners' = r.out
           /\ points_added' = r.added
           /\ IF r.panic
              THEN dpc' = "panicked" /\ threshold' = threshold
              ELSE /\ dpc' = "while"
                   /\ threshold' = IF threshold < 5 THEN threshold ELSE threshold - 5
    /\ UNCHANGED <<image, grid_size, current_corners, num_points_in_cell, grids,
                   x_start, x_stop, y_start, y_stop, seeded, x, y>>
    /\ UNCHANGED <<respVars, overflow_checks, gradVars, se2Vars>>

\* Line 125: the while condition fails; on to the next cell, or return.
WhileExit ==
    /\ dpc = "while"
    /\ ~WhileCond(points_added, num_points_in_cell, threshold)
    /\ GoTo(NextCellOf(x, y))
    /\ UNCHANGED <<image, grid_size, current_corners, num_points_in_cell, grids,
                   x_start, x_stop, y_start, y_stop, seeded, points_added,
                   threshold, all_corners, passLog>>
    /\ UNCHANGED <<respVars, overflow_checks, gradVars, se2Vars>>

NextDetect == GridSetup \/ SeedCorner \/ SeedDone \/ VisitCell \/ FastPass \/ WhileExit

(***************************************************************************)
(*               inbound and image_grad (image_utilities.rs)               *)
(***************************************************************************)

\* Largest width / height of the frames sampled.
MaxGradDim == 6

GradRadii == {2, 3}

\* Coordinates, in half pixels: -1.0 .. MaxGradDim + 1.0
HalfCoords == (-2)..(2 * (MaxGradDim + 1))

\* x.round() as u32: half away from zero, negatives saturate to 0.
RoundU32(v) == IF v < 0 THEN 0 ELSE (v + 1) \div 2

\* x.floor() as u32: negatives saturate to 0.
FloorU32(v) == IF v < 0 THEN 0 ELSE v \div 2

\* The 8-bit intensity of pixel (c, r) of the sampled frame.
GrayPixel(c, r) == (3 * c + 5 * r + c * r) % 256

\* inbound: [ret, panic].  && evaluates left to right; a subtraction that is
\* reached and overflows panics under overflow checks and wraps without.
inbound(img, cx, cy, rad) ==
    LET xr == RoundU32(cx)
        yr == RoundU32(cy)
    IN  IF ~(xr >= rad /\ yr >= rad) THEN [ret |-> FALSE, panic |-> FALSE]
        ELSE IF img.width < rad /\ overflow_checks THEN [ret |-> FALSE, panic |-> TRUE]
        ELSE IF ~(xr < WrapSub(img.width, rad)) THEN [ret |-> FALSE, panic |-> FALSE]
        ELSE IF img.height < rad /\ overflow_checks THEN [ret |-> FALSE, panic |-> TRUE]
        ELSE [ret |-> yr < WrapSub(img.height, rad), panic |-> FALSE]

\* The get_pixel calls of image_grad in program order, as offsets from (ix, iy).
GradReads ==
    <<<<0, 0>>, <<1, 0>>, <<0, 1>>, <<1, 1>>,
      <<-1, 0>>, <<-1, 1>>,
      <<2, 0>>, <<2, 1>>,
      <<0, -1>>, <<1, -1>>,
      <<0, 2>>, <<1, 2>>>>

\* Whether the k-th read fails: ix - 1 / iy - 1 below zero (a panic under
\* overflow checks, else an index near u32::MAX), or get_pixel outside the image.
ReadFails(img, ix, iy, k) ==
    LET c == ix + GradReads[k][1]
        r == iy + GradReads[k][2]
    IN  c < 0 \/ r < 0 \/ c >= img.width \/ r >= img.height

\* The Vec3 of image_grad, every component times 8 (weights are in halves).
GradValue(ix, iy, hx, hy) ==
    LET dx  == hx - 2 * ix
        dy  == hy - 2 * iy
        ddx == 2 - dx
        ddy == 2 - dy
        P(a, b) == GrayPixel(ix + a, iy + b)
        Blend(a, b) == ddx * ddy * P(a, b) + ddx * dy * P(a, b + 1)
                         + dx * ddy * P(a + 1, b) + dx * dy * P(a + 1, b + 1)
    IN  <<2 * Blend(0, 0), Blend(1, 0) - Blend(-1, 0), Blend(0, 1) - Blend(0, -1)>>

InitGrad ==
    /\ overflow_checks \in BOOLEAN
    /\ \E gw \in 1..MaxGradDim, gh \in 1..MaxGradDim :
          image = [height |-> gh, width |-> gw, strength |-> <<>>]
    /\ \E hx \in HalfCoords, hy \in HalfCoords : coord = [x |-> hx, y |-> hy]
    /\ inbound_radius \in GradRadii
    /\ gpc = "start"
    /\ inbound_ret = "none"
    /\ reads = {}
    /\ grad = <<>>

IdleGrad ==
    /\ coord = [x |-> 0, y |-> 0]
    /\ inbound_radius = 0
    /\ gpc = "idle"
    /\ inbound_ret = "none"
    /\ reads = {}
    /\ grad = <<>>

\* The caller asks the bounds predicate.
Inbound ==
    /\ gpc = "start"
    /\ LET r == inbound(image, coord.x, coord.y, inbound_radius)
       IN  IF r.panic
           THEN gpc' = "panicked" /\ inbound_ret' = inbound_ret
           ELSE gpc' = "checked" /\ inbound_ret' = (IF r.ret THEN "true" ELSE "false")
    /\ UNCHANGED <<coord, inbound_radius, reads, grad>>
    /\ UNCHANGED <<respVars, overflow_checks, detVars, se2Vars>>

\* The caller samples the gradient at a coordinate inbound accepted.
ImageGrad ==
    /\ gpc = "checked" /\ inbound_ret = "true"
    /\ LET ix == FloorU32(coord.x)
           iy == FloorU32(coord.y)
           bad == {k \in 1..Len(GradReads) : ReadFails(image, ix, iy, k)}
           firstBad == IF bad = {} THEN Len(GradReads) + 1
                       ELSE CHOOSE k \in bad : \A j \in bad : k <= j
       IN  /\ reads' = {<<ix + GradReads[k][1], iy + GradReads[k][2]>> : k \in 1..(firstBad - 1)}
           /\ IF bad = {}
              THEN gpc' = "sampled" /\ grad' = GradValue(ix, iy, coord.x, coord.y)
              ELSE gpc' = "panicked" /\ grad' = grad
    /\ UNCHANGED <<coord, inbound_radius, inbound_ret>>
    /\ UNCHANGED <<respVars, overflow_checks, detVars, se2Vars>>

NextGrad == Inbound \/ ImageGrad

(***************************************************************************)
(*                  se2_exp_matrix (image_utilities.rs)                    *)
(***************************************************************************)

\* Scale of the fixed-point representation of the twist and the matrix.
Milli == 1000

\* Rotation angles, in thousandths of a radian: 0, 0.5, 1, pi/2, -1, pi.
Thetas == {0, 500, 1000, 1571, -1000, 3142}
Translations == {-1000, 0, 500, 2000}

\* theta.sin() and theta.cos(), rounded to thousandths.
Sin(t) == CASE t = 0 -> 0 [] t = 500 -> 479 [] t = 1000 -> 841
            [] t = 1571 -> 1000 [] t = -1000 -> -841 [] t = 3142 -> 0
Cos(t) == CASE t = 0 -> 1000 [] t = 500 -> 878 [] t = 1000 -> 540
            [] t = 1571 -> 0 [] t = -1000 -> 540 [] t = 3142 -> -1000

Abs(v) == IF v < 0 THEN -v ELSE v

\* Fixed-point product and quotient, truncated toward zero.
Trunc(n, d) == IF (n < 0) # (d < 0) THEN -(Abs(n) \div Abs(d)) ELSE Abs(n) \div Abs(d)
MMul(a, b) == Trunc(a * b, Milli)
MDiv(a, b) == Trunc(a * Milli, b)

\* theta.abs() < f32::EPSILON: of the angles representable in thousandths only
\* zero is below 1.19e-7.
BelowEpsilon(theta) == Abs(theta) < 1

\* Mat3::from_cols_array(&[..9 values..]): the array is read column by column.
from_cols_array(m) ==
    [x_axis |-> <<m[1], m[2], m[3]>>,
     y_axis |-> <<m[4], m[5], m[6]>>,
     z_axis |-> <<m[7], m[8], m[9]>>]

se2_exp_matrix(a) ==
    LET theta == a.z
        theta_sq == MMul(theta, theta)
        sin_theta_by_theta ==
            IF BelowEpsilon(theta) THEN Milli - Trunc(theta_sq, 6)
            ELSE MDiv(Sin(theta), theta)
        one_minus_cos_theta_by_theta ==
            IF BelowEpsilon(theta) THEN Trunc(theta, 2) - Trunc(MMul(theta, theta_sq), 24)
            ELSE MDiv(Milli - Cos(theta), theta)
        t_x == MMul(sin_theta_by_theta, a.x) - MMul(one_minus_cos_theta_by_theta, a.y)
        t_y == MMul(one_minus_cos_theta_by_theta, a.x) + MMul(sin_theta_by_theta, a.y)
    IN  from_cols_array(<<Cos(theta), -Sin(theta), 0,
                          Sin(theta),  Cos(theta), 0,
                          t_x,         t_y,        Milli>>)

InitSe2 ==
    /\ \E tx \in Translations, ty \in Translations, th \in Thetas :
          twist = [x |-> tx, y |-> ty, z |-> th]
    /\ mat = <<>>
    /\ spc = "start"

IdleSe2 ==
    /\ twist = [x |-> 0, y |-> 0, z |-> 0]
    /\ mat = <<>>
    /\ spc = "idle"

Se2Exp ==
    /\ spc = "start"
    /\ mat' = se2_exp_matrix(twist)
    /\ spc' = "done"
    /\ UNCHANGED twist
    /\ UNCHANGED <<respVars, overflow_checks, detVars, gradVars>>

NextSe2 == Se2Exp

\* Number of chunks of par_chunks_exact_mut(src.cols()) over the destination.
NumChunks(d, s) == (d.rows * d.cols) \div s.cols

IdleResp ==
    /\ fn = "none"
    /\ src = from_size_val(1, 1, 0)
    /\ dst = from_size_val(1, 1, 0)
    /\ dst0 = dst.data
    /\ sigma1 = 0 /\ sigma2 = 0
    /\ rpc = "idle"
    /\ rowsDone = {}
    /\ ret = <<"none">>
    /\ blurLog = <<>>

InitResp ==
    /\ IdleDetect /\ IdleGrad /\ IdleSe2 /\ overflow_checks = TRUE
    /\ fn \in {"gftt", "hessian", "dog"}
    /\ \E ss \in Shapes : src \in SrcImages(ss[1], ss[2])
    /\ \E ds \in Shapes, f \in DstFills : dst = from_size_val(ds[1], ds[2], f)
    /\ dst0 = dst.data
    /\ IF fn = "dog" THEN sigma1 \in Sigmas /\ sigma2 \in Sigmas
                     ELSE sigma1 = 0 /\ sigma2 = 0
    /\ rpc = "call"
    /\ rowsDone = {}
    /\ ret = <<"none">>
    /\ blurLog = <<>>

\* gftt_response: the whole call.  The gradients, the blurred structure tensor
\* and the eigenvalues are floating-point images; the score is kept symbolic.
GfttResponse ==
    /\ fn = "gftt" /\ rpc = "call"
    /\ IF SizeNe(src, dst)
       THEN /\ ret' = InvalidImageSize(src, dst)
            /\ UNCHANGED <<dst, blurLog>>
       ELSE /\ blurLog' = <<<<7, 10>>, <<7, 10>>, <<7, 10>>>>
            /\ dst' = [dst EXCEPT !.data = [i \in DOMAIN dst.data |-> <<"gftt_score", i>>]]
            /\ ret' = Ok
    /\ rpc' = "done"
    /\ UNCHANGED <<fn, src, dst0, sigma1, sigma2, rowsDone, overflow_checks, detVars, gradVars, se2Vars>>

\* hessian_response: the shape check.
HessianCall ==
    /\ fn = "hessian" /\ rpc = "call"
    /\ IF SizeNe(src, dst)
       THEN ret' = InvalidImageSize(src, dst) /\ rpc' = "done"
       ELSE ret' = ret /\ rpc' = "rows"
    /\ UNCHANGED <<fn, src, dst, dst0, sigma1, sigma2, rowsDone, blurLog, overflow_checks, detVars, gradVars, se2Vars>>

\* hessian_response: one task of par_chunks_exact_mut(src.cols()).enumerate();
\* the tasks run in any order.
HessianRow ==
    /\ fn = "hessian" /\ rpc = "rows"
    /\ \E row_idx \in (0..(NumChunks(dst, src) - 1)) \ rowsDone :
         /\ dst' = [dst EXCEPT !.data = HessianRowWrite(src, dst.data, row_idx)]
         /\ rowsDone' = rowsDone \cup {row_idx}
    /\ UNCHANGED <<fn, src, dst0, sigma1, sigma2, rpc, ret, blurLog, overflow_checks, detVars, gradVars, se2Vars>>

\* hessian_response: every task has finished; Ok(()).
HessianReturn ==
    /\ fn = "hessian" /\ rpc = "rows"
    /\ rowsDone = 0..(NumChunks(dst, src) - 1)
    /\ ret' = Ok /\ rpc' = "done"
    /\ UNCHANGED <<fn, src, dst, dst0, sigma1, sigma2, rowsDone, blurLog, overflow_checks, detVars, gradVars, se2Vars>>

\* dog_response: the whole call.
DogResponse ==
    /\ fn = "dog" /\ rpc = "call"
    /\ IF SizeNe(src, dst)
       THEN /\ ret' = InvalidImageSize(src, dst)
            /\ UNCHANGED <<dst, blurLog>>
       ELSE LET gauss1 == from_size_val(src.rows, src.cols, 0)
                gauss2 == from_size_val(src.rows, src.cols, 0)
                ks1 == get_kernel_size(sigma1)
                ks2 == get_kernel_size(sigma2)
                r1  == gaussian_blur_result(src, gauss1, ks1)
                r2  == gaussian_blur_result(src, gauss2, ks2)
            IN  IF r1 # Ok
                THEN ret' = r1 /\ blurLog' = <<<<ks1, sigma1>>>> /\ dst' = dst
                ELSE IF r2 # Ok
                THEN /\ ret' = r2
                     /\ blurLog' = <<<<ks1, sigma1>>, <<ks2, sigma2>>>>
                     /\ dst' = dst
                ELSE /\ blurLog' = <<<<ks1, sigma1>>, <<ks2, sigma2>>>>
                     /\ dst' = [dst EXCEPT !.data =
                                  [i \in DOMAIN dst.data |->
                                     <<"sub", gaussian_blur_pixel(ks2, sigma2, i),
                                              gaussian_blur_pixel(ks1, sigma1, i)>>]]
                     /\ ret' = Ok
    /\ rpc' = "done"
    /\ UNCHANGED <<fn, src, dst0, sigma1, sigma2, rowsDone, overflow_checks, detVars, gradVars, se2Vars>>

NextResp == GfttResponse \/ HessianCall \/ HessianRow \/ HessianReturn \/ DogResponse

SpecResp == InitResp /\ [][NextResp]_vars

DetectInit == InitDetect /\ IdleResp /\ IdleGrad /\ IdleSe2

SpecDetect == DetectInit /\ [][NextDetect]_vars

GradInit == InitGrad /\ IdleDetectRest /\ IdleResp /\ IdleSe2

SpecGrad == GradInit /\ [][NextGrad]_vars

Se2Init == InitSe2 /\ IdleDetect /\ IdleResp /\ IdleGrad /\ overflow_checks = TRUE

SpecSe2 == Se2Init /\ [][NextSe2]_vars


(***************************************************************************)
(*                  Properties of the response functions                   *)
(***************************************************************************)

\* Source pixel I(px, py): column px, row py.
SrcAt(px, py) == src.data[py * src.cols + px]

StencilDxx(px, py) == SrcAt(px - 1, py) - 2 * SrcAt(px, py) + SrcAt(px + 1, py)
StencilDyy(px, py) == SrcAt(px, py - 1) - 2 * SrcAt(px, py) + SrcAt(px, py + 1)
StencilDxy(px, py) ==
    (SrcAt(px + 1, py + 1) - SrcAt(px - 1, py + 1) - SrcAt(px + 1, py - 1) + SrcAt(px - 1, py - 1)) \div 4
StencilDet(px, py) ==
    FMul(StencilDxx(px, py), StencilDyy(px, py)) - FMul(StencilDxy(px, py), StencilDxy(px, py))

Interior(px, py) == 1 <= px /\ px <= src.cols - 2 /\ 1 <= py /\ py <= src.rows - 2

SameShape == src.rows = dst.rows /\ src.cols = dst.cols

HessianReturned == fn = "hessian" /\ rpc = "done" /\ SameShape

RingExpected ==
    <<0, 0, 0, 0, 0,
      0, 1, 0, 1, 0,
      0, 0, 4, 0, 0,
      0, 1, 0, 1, 0,
      0, 0, 0, 0, 0>>

C5_ShapeMismatch ==
    (rpc = "done" /\ ~SameShape) =>
      /\ ret = <<"Err", "InvalidImageSize", src.cols, src.rows, dst.cols, dst.rows>>
      /\ dst.data = dst0

\* dog_response has returned on a source that has more columns than rows and a
\* destination of another shape.
C5_Witness ==
    /\ rpc = "done" /\ fn = "dog"
    /\ src.cols > src.rows
    /\ dst.rows # src.rows /\ dst.cols # src.cols
    /\ ret[1] = "Err"

\* C6: dog_response on equal-shaped images with sigma1 <= 0 or sigma2 <= 0 fails
\* fast: it returns an error, derives no kernel size, calls no blur and does not
\* write the destination.
C6_DogRejectsNonPositiveSigma ==
    (fn = "dog" /\ rpc = "done" /\ SameShape /\ (sigma1 <= 0 \/ sigma2 <= 0)) =>
      /\ ret[1] = "Err"
      /\ blurLog = <<>>
      /\ dst.data = dst0


(***************************************************************************)
(*                     Properties of detect_key_points                     *)
(***************************************************************************)

\* The start offsets of the grid, from the frame alone.
BandStartX == (image.width % grid_size) \div 2
BandStartY == (image.height % grid_size) \div 2

\* Points a and b lie in the same grid cell
\* [x_start + i*grid_size, x_start + (i+1)*grid_size) x [y_start + j*grid_size, ...).
SameCell(a, b) ==
    /\ a.x >= BandStartX /\ b.x >= BandStartX
    /\ a.y >= BandStartY /\ b.y >= BandStartY
    /\ (a.x - BandStartX) \div grid_size = (b.x - BandStartX) \div grid_size
    /\ (a.y - BandStartY) \div grid_size = (b.y - BandStartY) \div grid_size

\* The frame position of a corner reported by corners_fast9 for the view at (vx, vy).
InFrame(c, vx, vy) == Corner(c.x + vx, c.y + vy, c.score)

WithinMargin(k) ==
    /\ 19 <= k.x /\ k.x <= image.width - 19
    /\ 19 <= k.y /\ k.y <= image.height - 19

\* C2: no keypoint of the list lies in a grid cell that contains an existing
\* corner, nor in a cell whose occupancy counter is above 0: occupied cells
\* never receive new points.
C2_OccupiedCellsGetNoPoints ==
    \A i \in 1..Len(all_corners) :
       /\ \A j \in 1..Len(current_corners) : ~SameCell(all_corners[i], current_corners[j])
       /\ grids[(all_corners[i].y - BandStartY) \div grid_size]
               [(all_corners[i].x - BandStartX) \div grid_size] = 0

\* The call has returned a non-empty list although a cell holding an existing
\* corner contains a FAST corner that lies within the margin.
C2_Witness ==
    /\ dpc = "returned"
    /\ Len(all_corners) >= 1
    /\ \E p \in CandidatePixels, j \in 1..Len(current_corners) :
          /\ image.strength[p] >= 10
          /\ WithinMargin(Corner(p[1], p[2], 0))
          /\ SameCell(Corner(p[1], p[2], 0), current_corners[j])
          /\ p[1] - BandStartX - ((p[1] - BandStartX) \div grid_size) * grid_size \in 3..(grid_size - 4)
          /\ p[2] - BandStartY - ((p[2] - BandStartY) \div grid_size) * grid_size \in 3..(grid_size - 4)

\* C3: every keypoint (x, y) of the list, in frame coordinates, satisfies
\* 19 <= x <= w - 19 and 19 <= y <= h - 19.
C3_EdgeMargin ==
    \A i \in 1..Len(all_corners) : WithinMargin(all_corners[i])

\* The call has returned a non-empty list, and some pass reported a corner that
\* lies outside the margin.
C3_Witness ==
    /\ dpc = "returned"
    /\ Len(all_corners) >= 1
    /\ \E i \in 1..Len(passLog) :
          \E c \in corners_fast9(image, passLog[i][1], passLog[i][2], grid_size, passLog[i][3]) :
             ~WithinMargin(InFrame(c, passLog[i][1], passLog[i][2]))

\* C4: for any frame, grid_size >= 1, existing corners and quota,
\* detect_key_points ends by returning its keypoint list: the grid setup, the
\* cell loops and the threshold loop all finish, none of them by a panic.
C4_ReturnsList == dpc # "panicked"

\* The keypoints of the list that lie in the cell with origin (cx, cy).
FromCell(cx, cy) ==
    {i \in 1..Len(all_corners) :
        /\ all_corners[i].x >= cx /\ all_corners[i].x < cx + grid_size
        /\ all_corners[i].y >= cy /\ all_corners[i].y < cy + grid_size}

\* C8: in every visited cell the FAST detector runs at 40, 35, 30, ... in that
\* order, 5 less each pass; a pass starts only while the cell has fewer than
\* num_points_in_cell accepted points, so no cell contributes more than
\* num_points_in_cell keypoints; no pass runs below 10 and the u8 threshold
\* never underflows.
C8_ThresholdSchedule ==
    /\ threshold \in 0..255
    /\ \A i \in 1..Len(passLog) :
          LET e == passLog[i]
              first == i = 1 \/ passLog[i - 1][1] # e[1] \/ passLog[i - 1][2] # e[2]
          IN  /\ e[3] >= 10
              /\ e[4] < num_points_in_cell
              /\ IF first THEN e[3] = 40 /\ e[4] = 0
                          ELSE e[3] = passLog[i - 1][3] - 5
              /\ Cardinality(FromCell(e[1], e[2])) <= num_points_in_cell
    /\ (num_points_in_cell = 0) => all_corners = <<>>

\* The call has returned after one cell went through every pass down to 10 and
\* another cell stopped after its first pass with the quota reached.
C8_Witness ==
    /\ dpc = "returned"
    /\ \E i \in 1..Len(passLog) : passLog[i][3] = 10
    /\ \E i \in 1..(Len(passLog) - 1) :
          /\ passLog[i][3] = 40
          /\ <<passLog[i + 1][1], passLog[i + 1][2]>> # <<passLog[i][1], passLog[i][2]>>
          /\ Cardinality(FromCell(passLog[i][1], passLog[i][2])) = num_points_in_cell

\* C9: the list never holds two keypoints with the same (x, y): a corner
\* accepted at one pass of a cell is not accepted again at a later pass, and
\* distinct cells contribute disjoint positions.
C9_NoDuplicates ==
    \A i \in 1..Len(all_corners), j \in 1..Len(all_corners) :
       i # j => <<all_corners[i].x, all_corners[i].y>> # <<all_corners[j].x, all_corners[j].y>>


(***************************************************************************)
(*            Properties of inbound / image_grad and se2_exp_matrix        *)
(***************************************************************************)

\* Row r (1..3) of a Mat3, which acts on column vectors.
MatRow(m, r) == <<m.x_axis[r], m.y_axis[r], m.z_axis[r]>>

\* sin(theta)/theta and (1 - cos(theta))/theta, with their limits at 0.
SincOf(theta) == IF theta = 0 THEN Milli ELSE MDiv(Sin(theta), theta)
VersOf(theta) == IF theta = 0 THEN 0 ELSE MDiv(Milli - Cos(theta), theta)

\* C7: se2_exp_matrix returns the standard SE(2) exponential acting on
\* homogeneous column vectors: row 0 = (cos theta, -sin theta, t_x),
\* row 1 = (sin theta, cos theta, t_y), row 2 = (0, 0, 1), with
\* t_x = a*tx - b*ty, t_y = b*tx + a*ty, a = sin(theta)/theta and
\* b = (1 - cos(theta))/theta; the zero twist yields the identity.
C7_StandardExponential ==
    spc = "done" =>
      LET theta == twist.z
          a == SincOf(theta)
          b == VersOf(theta)
          t_x == MMul(a, twist.x) - MMul(b, twist.y)
          t_y == MMul(b, twist.x) + MMul(a, twist.y)
      IN  /\ MatRow(mat, 1) = <<Cos(theta), -Sin(theta), t_x>>
          /\ MatRow(mat, 2) = <<Sin(theta), Cos(theta), t_y>>
          /\ MatRow(mat, 3) = <<0, 0, Milli>>

\* C10: if inbound returns true for a radius >= 2, every pixel image_grad
\* reads, columns floor(x)-1 .. floor(x)+2 and rows floor(y)-1 .. floor(y)+2,
\* lies inside the image and neither ix - 1 nor iy - 1 underflows.
C10_InboundGuardsImageGrad ==
    (inbound_ret = "true" /\ inbound_radius >= 2) =>
      LET ix == IF coord.x < 0 THEN 0 ELSE coord.x \div 2
          iy == IF coord.y < 0 THEN 0 ELSE coord.y \div 2
      IN  /\ ix - 1 >= 0 /\ iy - 1 >= 0
          /\ ix + 2 <= image.width - 1
          /\ iy + 2 <= image.height - 1
          /\ gpc # "panicked"

=============================================================================
